---- MODULE Spec2Model ----
(* Session ledger of stint: timers, sessions, and the start / stop /        *)
(* create / delete operations of src/lib/timer.ts over the SQLite store of  *)
(* src/lib/db.ts.  Timestamps are integer seconds; the wall clock is the    *)
(* variable now.                                                            *)
EXTENDS Integers, FiniteSets, Sequences, TLC

\* ---------------------------------------------------------------- bounds
MaxTime == 1
MaxSessions == 2

Names == {"work", "music"}
\* explicit timestamps a caller passes
Times == 0..MaxTime
\* the clock runs from 1 to one second past the last explicit timestamp
MaxNow == MaxTime + 1
TimerIds == 1..Cardinality(Names)
MaxTimers == 3
AllTimerIds == 1..MaxTimers
SessionIds == 1..MaxSessions

\* SQL NULL / JS null / an omitted optional argument
NULL == -1
OptTimes == Times \cup {NULL}
\* values a stored start or end can take
StoredTimes == 0..MaxNow

\* stint processes that may run at once against the one database file
MaxProcs == 2
Procs == 1..MaxProcs

\* calendar days the log spans; timestamps of the log are seconds of a day
MaxDay == 1
Days == 0..MaxDay
SecondsPerDay == 86400

DefaultColor == "#f5f5f4"
Colors == {DefaultColor}

VARIABLES timers, sessions, now, nextTimerId, nextSessionId, last, pending, tui

\* pending: the startTimer calls of concurrent processes that have passed their
\* checks and not yet run their INSERT, each with what it read
\* tui: the state of the mounted ink component (CalendarView or
\* SessionPicker), NoTui when none is mounted

vars == <<timers, sessions, now, nextTimerId, nextSessionId, last, pending, tui>>

NoTui == [component |-> "none"]

\* ------------------------------------------------------- JS expressions
\* truthiness of a number | null | undefined: 0 and null/undefined are falsy
Truthy(x) == x # NULL /\ x # 0

\* x ?? d
Coalesce(x, d) == IF x = NULL THEN d ELSE x

SetMax(S) == CHOOSE m \in S : \A x \in S : x <= m

\* ------------------------------------------------------------- schemas
\* names and colors a caller may pass that TimerSchema does not accept
LongName ==
  "xxxxxxxxxxxxxxxxxxxxxxxxxxxxxxxxxxxxxxxxxxxxxxxxxxxxxxxxxxxxxxxxxxxxxxxxxxxxxxxxxxxxxxxxxxxxxxxxxxxxx"
InputNames == Names \cup {"", LongName}
InputColors == Colors \cup {"red"}

\* the characters of the colors of the model
colorChars ==
  [c \in InputColors |->
     IF c = "#f5f5f4" THEN <<"#", "f", "5", "f", "5", "f", "4">>
     ELSE <<"r", "e", "d">>]

HexDigits == {"0", "1", "2", "3", "4", "5", "6", "7", "8", "9",
              "a", "b", "c", "d", "e", "f", "A", "B", "C", "D", "E", "F"}

\* name: z.string().min(1).max(100)
nameOk(name) == Len(name) >= 1 /\ Len(name) <= 100

\* color: z.string().regex(/^#[0-9a-f]{6}$/i)
colorOk(color) ==
  LET cs == colorChars[color]
  IN Len(cs) = 7 /\ cs[1] = "#" /\ \A i \in 2..7 : cs[i] \in HexDigits

\* the inputs of the model that the two fields accept
ValidNames == {n \in InputNames : nameOk(n)}
ValidColors == {c \in InputColors : colorOk(c)}

\* TimerSchema.parse accepts the row
timerSchemaOk(row) == row.name \in ValidNames /\ row.color \in ValidColors

\* --------------------------------------------------------------- rows
timerRow(id, name, color) == [id |-> id, name |-> name, color |-> color]

startSession(id, timerId, start) ==
  [id |-> id, timerId |-> timerId, start |-> start, end |-> NULL]

\* variant: the end column is left unbound by the INSERT
createSessionRow_noEnd(id, timerId, start, end) ==
  [id |-> id, timerId |-> timerId, start |-> start, end |-> NULL]

createSessionRow(id, timerId, start, end) ==
  [id |-> id, timerId |-> timerId, start |-> start, end |-> end]

stopSession(s, end) == [s EXCEPT !.end = end]

\* -------------------------------------------------------------- queries
\* variant: the lookup never finds a row
getTimerByName_noRow(name) == {}

getTimerByName(name) == {t \in timers : t.name = name}

\* variant: the query drops its end IS NULL filter
getActiveSession_anyEnd(timerId) == {s \in sessions : s.timerId = timerId}

\* variant: the query drops its timer_id filter
getActiveSession_anyTimer(timerId) == {s \in sessions : s.end = NULL}

getActiveSession(timerId) ==
  {s \in sessions : s.timerId = timerId /\ s.end = NULL}

\* variant: the result falls back to null with || instead of ??
getLatestEndTimestamp_orNull ==
  LET ends == {s.end : s \in {x \in sessions : x.end # NULL}}
  IN IF ends = {} \/ ~Truthy(SetMax(ends)) THEN NULL ELSE SetMax(ends)

\* variant: the end of the completed session inserted last
getLatestEndTimestamp_lastInserted ==
  LET done == {x \in sessions : x.end # NULL}
  IN IF done = {} THEN NULL
     ELSE (CHOOSE s \in done : \A x \in done : x.id <= s.id).end

getLatestEndTimestamp ==
  LET ends == {s.end : s \in {x \in sessions : x.end # NULL}}
  IN IF ends = {} THEN NULL ELSE SetMax(ends)

getSessionById(id) == {s \in sessions : s.id = id}

getTimerById(id) == {t \in timers : t.id = id}

\* the names of the model in the order ORDER BY name puts them (bytewise)
NameOrder == <<"", "music", "work", LongName>>

nameRank(name) == CHOOSE i \in 1..Len(NameOrder) : NameOrder[i] = name

RECURSIVE orderByName(_)
orderByName(rows) ==
  IF rows = {} THEN <<>>
  ELSE LET first == CHOOSE t \in rows :
                      \A u \in rows : nameRank(t.name) <= nameRank(u.name)
       IN <<first>> \o orderByName(rows \ {first})

\* SELECT * FROM timers ORDER BY name, each row through TimerSchema.parse:
\* the rows in order, or the error the first rejected row throws
getAllTimers ==
  IF \A t \in timers : timerSchemaOk(t)
    THEN [err |-> "none", rows |-> orderByName(timers)]
    ELSE [err |-> "ValidationError", rows |-> <<>>]

getSessionsInRange(startTime, endTime) ==
  {s \in sessions : s.start >= startTime /\ s.start <= endTime}

\* variant: the Map gets a key for every stored timer
groupByTimer_allTimers(rows) ==
  [t \in timers |-> {s \in rows : s.timerId = t.id}]

\* the Map the range queries build from the selected rows: one key per timer
\* row found for a selected session, holding that timer's selected sessions
\* (rows are distinct by id; their ORDER BY order is not kept here)
groupByTimer(rows) ==
  [t \in UNION {getTimerById(s.timerId) : s \in rows} |->
     {s \in rows : s.timerId = t.id}]

\* variant: the end !== null filter is missing
getSessionsByTimer_noFilter(startTime, endTime) ==
  groupByTimer(getSessionsInRange(startTime, endTime))

getSessionsByTimer(startTime, endTime) ==
  groupByTimer({s \in getSessionsInRange(startTime, endTime) : s.end # NULL})

\* variant: the OR clause for running sessions is missing
getAllSessionsByTimer_windowOnly(startTime, endTime) ==
  groupByTimer({s \in sessions : s.start >= startTime /\ s.start <= endTime})

\* the rows getAllSessionsByTimer selects; its statement binds
\* (startTime, endTime, endTime)
allSessionsInRange(startTime, endTime) ==
  {s \in sessions : \/ (s.start >= startTime /\ s.start <= endTime)
                    \/ (s.start < endTime /\ s.end = NULL)}

getAllSessionsByTimer(startTime, endTime) ==
  groupByTimer(allSessionsInRange(startTime, endTime))

\* variant: the end falls back to the clock with || instead of ??
getSessionDuration_orNow(session) ==
  (IF Truthy(session.end) THEN session.end ELSE now) - session.start

\* getSessionDuration(session), read at the current clock
getSessionDuration(session) == Coalesce(session.end, now) - session.start

\* ------------------------------------------------- delete by session id
\* the nanoid text of the session rows, in the order nanoid() drew them:
\* letters of both cases, digits, "_" and "-"; five characters stand for the
\* twenty-one of a real id
idText(id) ==
  IF id = 1 THEN <<"A", "b", "_", "d", "1">>
  ELSE IF id = 2 THEN <<"a", "b", "c", "d", "2">>
  ELSE IF id = 3 THEN <<"a", "b", "x", "D", "3">>
  ELSE <<"q", "r", "s", "t", "4">>

\* what a user may type as session id: a whole id, the first four or three
\* characters of one, in the same or another case, and an id of no session
InputIds ==
  {idText(id) : id \in SessionIds}
    \cup {SubSeq(idText(id), 1, 4) : id \in SessionIds}
    \cup {SubSeq(idText(id), 1, 3) : id \in SessionIds}
    \cup {<<"a", "b", "_", "d">>, <<"A", "B", "C", "D">>, <<"z", "z", "z", "z">>}

\* ASCII lower case, as LIKE compares letters
lowerCase(c) ==
  IF c = "A" THEN "a" ELSE IF c = "B" THEN "b" ELSE IF c = "C" THEN "c"
  ELSE IF c = "D" THEN "d" ELSE c

\* text LIKE pattern || '%', for a pattern without "%": every character of
\* the pattern is "_", which stands for any one character, or equals the
\* character of the text up to the case of ASCII letters
likePrefix(text, pattern) ==
  /\ Len(pattern) <= Len(text)
  /\ \A i \in 1..Len(pattern) :
       pattern[i] = "_" \/ lowerCase(pattern[i]) = lowerCase(text[i])

\* SELECT * FROM timer_sessions WHERE id LIKE ?, bound to sessionId + '%'
likeResults(sessionId) == {s \in sessions : likePrefix(idText(s.id), sessionId)}

\* findSession(sessionId): the rows it returns (none for null) and the error
\* it throws
findSession(sessionId) ==
  LET exact == {s \in sessions : idText(s.id) = sessionId}
      results == likeResults(sessionId)
  IN IF exact # {} THEN [err |-> "none", rows |-> exact]
     ELSE IF Len(sessionId) >= 4 /\ Cardinality(results) = 1
            THEN [err |-> "none", rows |-> results]
     ELSE IF Len(sessionId) >= 4 /\ Cardinality(results) > 1
            THEN [err |-> "MultipleMatch", rows |-> {}]
     ELSE [err |-> "none", rows |-> {}]

\* ------------------------------------------------------------ the log
\* parseDateRange: the window from the start of day d1 to the end of day d2
startOfDay(d) == d * SecondsPerDay
endOfDay(d) == d * SecondsPerDay + SecondsPerDay - 1

\* dayKey: the calendar day of the session's start, the zone offset taken as 0
dayKey(session) == session.start \div SecondsPerDay

\* array.reduce((sum, x) => sum + f[x], 0) over the elements of S
RECURSIVE SumOver(_, _)
SumOver(f, S) ==
  IF S = {} THEN 0
  ELSE LET x == CHOOSE y \in S : TRUE IN f[x] + SumOver(f, S \ {x})

\* sessionsByDay: for every day some session of the grouping starts on, the
\* Map from timer to its sessions of that day
sessionsByDay(sessionsByTimer) ==
  [day \in {dayKey(s) : s \in UNION {sessionsByTimer[t] : t \in DOMAIN sessionsByTimer}} |->
     [timer \in {t \in DOMAIN sessionsByTimer :
                   \E s \in sessionsByTimer[t] : dayKey(s) = day} |->
        {s \in sessionsByTimer[timer] : dayKey(s) = day}]]

\* variant: only a session that has ended counts
timerDayTotal_closedOnly(daySessions) ==
  SumOver([s \in daySessions |-> IF s.end = NULL THEN 0 ELSE s.end - s.start],
          daySessions)

\* timerDayTotal: the durations of one timer's sessions of one day, added up
timerDayTotal(daySessions) ==
  SumOver([s \in daySessions |-> getSessionDuration(s)], daySessions)

\* dayTotalByTimer, keyed by timer name
dayTotalByTimer(dayMap) ==
  [name \in {t.name : t \in DOMAIN dayMap} |->
     timerDayTotal(dayMap[CHOOSE t \in DOMAIN dayMap : t.name = name])]

\* dayTotal: the "Total:" line of a day
dayTotal(dayMap) ==
  SumOver(dayTotalByTimer(dayMap), DOMAIN dayTotalByTimer(dayMap))

\* grandTotalByTimer, keyed by timer name: the timer's day totals over the
\* days it appears on
grandTotalByTimer(sessionsByTimer) ==
  LET byDay == sessionsByDay(sessionsByTimer)
  IN [name \in {t.name : t \in DOMAIN sessionsByTimer} |->
        SumOver([day \in {d \in DOMAIN byDay : name \in DOMAIN dayTotalByTimer(byDay[d])} |->
                   dayTotalByTimer(byDay[day])[name]],
                {d \in DOMAIN byDay : name \in DOMAIN dayTotalByTimer(byDay[d])})]

\* grandTotal: the final "Total:" line
grandTotal(sessionsByTimer) ==
  SumOver(grandTotalByTimer(sessionsByTimer),
          DOMAIN grandTotalByTimer(sessionsByTimer))

\* what generateLogOutput adds up for the grouping: the total of every day
\* and the grand total
generateLogOutput(sessionsByTimer) ==
  LET byDay == sessionsByDay(sessionsByTimer)
  IN [days |-> [day \in DOMAIN byDay |-> dayTotal(byDay[day])],
      total |-> grandTotal(sessionsByTimer)]

\* ------------------------------------------------------------ call log
\* the most recent call: operation, timer name, whether the optional
\* timestamp was passed, the error thrown ("none" on return), the created
\* flag, the id of the session the call touched and whether that session was
\* open when the call began
Call(op, name, explicit, err, created, sid) ==
  [op |-> op, name |-> name, explicit |-> explicit, err |-> err,
   created |-> created, sid |-> sid,
   wasOpen |-> \E x \in sessions : x.id = sid /\ x.end = NULL,
   ordered |-> FALSE, start |-> NULL, end |-> NULL, detail |-> <<>>]

\* a createSession call also logs whether its arguments came in order
\* (start < end) and, when it returned, the two arguments themselves
ManualCall(c, start, end) ==
  [c EXCEPT !.ordered = start < end,
            !.start = IF c.err = "none" THEN start ELSE NULL,
            !.end = IF c.err = "none" THEN end ELSE NULL]

\* toLocaleTimeString('en-GB', {hour: '2-digit', minute: '2-digit'}) of
\* new Date(latestEnd * 1000): hour of the day and minute of the hour, the
\* zone offset taken as 0
latestEndFormatted(latestEnd) ==
  LET latestEndDate == latestEnd * 1000
  IN <<(latestEndDate \div 3600000) % 24, (latestEndDate \div 60000) % 60>>

\* what a failed startTimer throws: the error and, for a chronology error,
\* the formatted latest end its message quotes
StartFailure(c) ==
  IF c.err = "ChronologyViolation"
    THEN [c EXCEPT !.detail = latestEndFormatted(getLatestEndTimestamp)]
    ELSE c

\* ---------------------------------------------------------------- init
Init ==
  /\ timers = {}
  /\ sessions = {}
  /\ now = 1
  /\ nextTimerId = 1
  /\ nextSessionId = 1
  /\ last = Call("init", "", FALSE, "none", FALSE, NULL)
  /\ pending = {}
  /\ tui = NoTui

\* -------------------------------------------------------------- actions
\* (\E x \in {e} : ... names the value of e, the result of the one call or
\* query the code makes, for the rest of the handler)
Tick ==
  /\ now < MaxNow
  /\ now' = now + 1
  /\ last' = Call("tick", "", FALSE, "none", FALSE, NULL)
  /\ UNCHANGED <<timers, sessions, nextTimerId, nextSessionId, pending, tui>>

\* variant: the name column carries no UNIQUE constraint
CreateTimer_noUnique(name, color) ==
  /\ timers' = timers \cup {timerRow(nextTimerId, name, color)}
  /\ nextTimerId' = nextTimerId + 1
  /\ last' = Call("create", name, FALSE, "none", TRUE, NULL)
  /\ UNCHANGED <<sessions, now, nextSessionId, pending, tui>>

\* a day passes on the wall clock
NextDay ==
  /\ now + SecondsPerDay <= endOfDay(MaxDay)
  /\ now' = now + SecondsPerDay
  /\ last' = Call("tick", "", FALSE, "none", FALSE, NULL)
  /\ UNCHANGED <<timers, sessions, nextTimerId, nextSessionId, pending, tui>>

\* createTimer(name, color): INSERT under the UNIQUE(name) constraint, then
\* TimerSchema.parse of the row read back
CreateTimer(name, color) ==
  \E found \in {getTimerByName(name)} :
    /\ found = {} => nextTimerId <= MaxTimers
    /\ IF found # {}
         THEN /\ last' = Call("create", name, FALSE, "DuplicateName", FALSE, NULL)
              /\ UNCHANGED <<timers, nextTimerId>>
         ELSE /\ timers' = timers \cup {timerRow(nextTimerId, name, color)}
              /\ nextTimerId' = nextTimerId + 1
              /\ last' = Call("create", name, FALSE,
                              IF timerSchemaOk(timerRow(nextTimerId, name, color))
                                THEN "none" ELSE "ValidationError",
                              TRUE, NULL)
    /\ UNCHANGED <<sessions, now, nextSessionId, pending, tui>>

\* variant: the active-session check is missing
startError_noActiveCheck(timerId, startAt) ==
  LET startTimestamp == Coalesce(startAt, now)
      latestEnd == getLatestEndTimestamp
  IN IF Truthy(startAt) /\ Truthy(latestEnd) /\ startTimestamp < latestEnd
       THEN "ChronologyViolation"
       ELSE "none"

\* variant: the chronology check runs before the active-session check
startError_chronologyFirst(timerId, startAt) ==
  LET startTimestamp == Coalesce(startAt, now)
      latestEnd == getLatestEndTimestamp
  IN IF Truthy(startAt) /\ Truthy(latestEnd) /\ startTimestamp < latestEnd
       THEN "ChronologyViolation"
       ELSE IF getActiveSession(timerId) # {} THEN "AlreadyRunning"
       ELSE "none"

\* the error startTimer throws once it holds the timer row, "none" if it
\* goes on to insert
startError(timerId, startAt) ==
  LET startTimestamp == Coalesce(startAt, now)
      latestEnd == getLatestEndTimestamp
  IN IF getActiveSession(timerId) # {} THEN "AlreadyRunning"
     ELSE IF Truthy(startAt) /\ Truthy(latestEnd) /\ startTimestamp < latestEnd
            THEN "ChronologyViolation"
            ELSE "none"

StartTimer(timerName, startAt) ==
  \E found \in {getTimerByName(timerName)} :
  \E timer \in (IF found = {}
                  THEN {timerRow(nextTimerId, timerName, DefaultColor)}
                  ELSE found) :
  \E err \in {IF timerSchemaOk(timer) THEN startError(timer.id, startAt)
              ELSE "ValidationError"} :
    LET created == found = {}
        startTimestamp == Coalesce(startAt, now)
    IN /\ err = "none" => nextSessionId <= MaxSessions
       /\ created => nextTimerId <= MaxTimers
       /\ timers' = IF created THEN timers \cup {timer} ELSE timers
       /\ nextTimerId' = IF created THEN nextTimerId + 1 ELSE nextTimerId
       /\ IF err # "none"
            THEN /\ last' = StartFailure(Call("start", timerName, startAt # NULL, err,
                                              created, NULL))
                 /\ UNCHANGED <<sessions, nextSessionId>>
            ELSE /\ sessions' = sessions \cup
                                  {startSession(nextSessionId, timer.id, startTimestamp)}
                 /\ nextSessionId' = nextSessionId + 1
                 /\ last' = Call("start", timerName, startAt # NULL, "none", created,
                                 nextSessionId)
       /\ UNCHANGED <<now, pending, tui>>

\* the error stopTimer throws for the active session it found, "none" if it
\* goes on to update
stopError(activeSession, stopAt) ==
  LET stopTimestamp == Coalesce(stopAt, now)
  IN IF Truthy(stopAt) /\ stopTimestamp <= activeSession.start
       THEN "InvalidStopTime"
       ELSE "none"

StopTimer(timerName, stopAt) ==
  \E found \in {getTimerByName(timerName)} :
    /\ IF found = {}
         THEN /\ last' = Call("stop", timerName, stopAt # NULL, "NotFound", FALSE, NULL)
              /\ UNCHANGED sessions
         ELSE \E timer \in found :
              \E active \in {getActiveSession(timer.id)} :
                IF ~timerSchemaOk(timer)
                  THEN /\ last' = Call("stop", timerName, stopAt # NULL,
                                       "ValidationError", FALSE, NULL)
                       /\ UNCHANGED sessions
                ELSE IF active = {}
                  THEN /\ last' = Call("stop", timerName, stopAt # NULL, "NotRunning",
                                       FALSE, NULL)
                       /\ UNCHANGED sessions
                  ELSE \E activeSession \in active :
                       \E err \in {stopError(activeSession, stopAt)} :
                         LET stopTimestamp == Coalesce(stopAt, now)
                         IN IF err # "none"
                              THEN /\ last' = Call("stop", timerName, stopAt # NULL, err,
                                                   FALSE, activeSession.id)
                                   /\ UNCHANGED sessions
                              ELSE /\ sessions' = (sessions \ {activeSession}) \cup
                                                    {stopSession(activeSession, stopTimestamp)}
                                   /\ last' = Call("stop", timerName, stopAt # NULL, "none",
                                                   FALSE, activeSession.id)
    /\ UNCHANGED <<timers, now, nextTimerId, nextSessionId, pending, tui>>

\* variant: only a start after the end is refused
createSessionError_startAfterEnd(start, end) ==
  IF start > end THEN "InvalidRange" ELSE "none"

\* the error createSession throws before it looks anything up, "none" if it
\* goes on to insert
createSessionError(start, end) ==
  IF start >= end THEN "InvalidRange" ELSE "none"

\* createSession(timerName, start, end): manual two-sided entry
CreateSession(timerName, start, end) ==
  /\ IF createSessionError(start, end) # "none"
       THEN /\ last' = ManualCall(Call("createSession", timerName, TRUE,
                                       createSessionError(start, end), FALSE, NULL),
                                  start, end)
            /\ UNCHANGED <<timers, sessions, nextTimerId, nextSessionId>>
       ELSE \E found \in {getTimerByName(timerName)} :
            \E timer \in (IF found = {}
                            THEN {timerRow(nextTimerId, timerName, DefaultColor)}
                            ELSE found) :
              LET created == found = {}
              IN /\ created => nextTimerId <= MaxTimers
                 /\ timers' = IF created THEN timers \cup {timer} ELSE timers
                 /\ nextTimerId' = IF created THEN nextTimerId + 1 ELSE nextTimerId
                 /\ IF ~timerSchemaOk(timer)
                      THEN /\ last' = ManualCall(Call("createSession", timerName, TRUE,
                                                      "ValidationError", created, NULL),
                                                 start, end)
                           /\ UNCHANGED <<sessions, nextSessionId>>
                      ELSE /\ nextSessionId <= MaxSessions
                           /\ sessions' = sessions \cup
                                {createSessionRow(nextSessionId, timer.id, start, end)}
                           /\ nextSessionId' = nextSessionId + 1
                           /\ last' = ManualCall(Call("createSession", timerName, TRUE,
                                                      "none", created, nextSessionId),
                                                 start, end)
  /\ UNCHANGED <<now, pending, tui>>

\* variant: the delete takes every session of the owning timer with it
DeleteSession_byTimer(sessionId) ==
  /\ IF getSessionById(sessionId) = {}
       THEN /\ last' = Call("delete", "", FALSE, "NotFound", FALSE, sessionId)
            /\ UNCHANGED sessions
       ELSE /\ sessions' = {s \in sessions :
                              \A d \in getSessionById(sessionId) : s.timerId # d.timerId}
            /\ last' = Call("delete", "", FALSE, "none", FALSE, sessionId)
  /\ UNCHANGED <<timers, now, nextTimerId, nextSessionId, pending, tui>>

\* variant: a delete that matches no row returns without an error
DeleteSession_silent(sessionId) ==
  /\ sessions' = sessions \ getSessionById(sessionId)
  /\ last' = Call("delete", "", FALSE, "none", FALSE, sessionId)
  /\ UNCHANGED <<timers, now, nextTimerId, nextSessionId, pending, tui>>

\* deleteSession(sessionId)
DeleteSession(sessionId) ==
  \E found \in {getSessionById(sessionId)} :
    /\ IF found = {}
         THEN /\ last' = Call("delete", "", FALSE, "NotFound", FALSE, sessionId)
              /\ UNCHANGED sessions
         ELSE /\ sessions' = sessions \ found
              /\ last' = Call("delete", "", FALSE, "none", FALSE, sessionId)
    /\ UNCHANGED <<timers, now, nextTimerId, nextSessionId, pending, tui>>

\* stint delete <session-id>: findSession, then doDelete of the session found
DeleteCommand(sessionId) ==
  \E found \in {findSession(sessionId)} :
    /\ IF found.err # "none"
         THEN /\ last' = [Call("deleteCommand", "", TRUE, found.err, FALSE, NULL)
                            EXCEPT !.detail = sessionId]
              /\ UNCHANGED sessions
         ELSE IF found.rows = {}
         THEN /\ last' = [Call("deleteCommand", "", TRUE, "NotFound", FALSE, NULL)
                            EXCEPT !.detail = sessionId]
              /\ UNCHANGED sessions
         ELSE \E session \in found.rows :
                /\ sessions' = sessions \ getSessionById(session.id)
                /\ last' = [Call("deleteCommand", "", TRUE, "none", FALSE, session.id)
                              EXCEPT !.detail = sessionId]
    /\ UNCHANGED <<timers, now, nextTimerId, nextSessionId, pending, tui>>

\* variant: foreign keys are not enforced, so nothing cascades
DeleteTimer_noCascade(timerId) ==
  /\ timers' = timers \ getTimerById(timerId)
  /\ last' = Call("deleteTimer", "", FALSE, "none", FALSE, NULL)
  /\ UNCHANGED <<sessions, now, nextTimerId, nextSessionId, pending, tui>>

\* DELETE FROM timers WHERE id = ?, with ON DELETE CASCADE on the sessions
DeleteTimer(timerId) ==
  /\ timers' = timers \ getTimerById(timerId)
  /\ sessions' = {s \in sessions : s.timerId # timerId}
  /\ last' = Call("deleteTimer", "", FALSE, "none", FALSE, NULL)
  /\ UNCHANGED <<now, nextTimerId, nextSessionId, pending, tui>>

Next ==
  \/ Tick
  \/ \E n \in Names, c \in Colors : CreateTimer(n, c)
  \/ \E n \in Names, at \in OptTimes : StartTimer(n, at)
  \/ \E n \in Names, at \in OptTimes : StopTimer(n, at)
  \/ \E n \in Names, s \in Times, e \in Times : CreateSession(n, s, e)
  \/ \E id \in SessionIds : DeleteSession(id)

Spec == Init /\ [][Next]_vars

\* the ledger as the range queries meet it: built by start (at the clock or
\* at a given time), stop at the clock, manual entry and deletion
QueryNext ==
  \/ Tick
  \/ \E n \in Names, at \in OptTimes : StartTimer(n, at)
  \/ \E n \in Names : StopTimer(n, NULL)
  \/ \E n \in Names, s \in Times, e \in Times : CreateSession(n, s, e)
  \/ \E id \in SessionIds : DeleteSession(id)

QuerySpec == Init /\ [][QueryNext]_vars

\* the ledger with timers coming and going: timers are created, started and
\* stopped at the clock, given manual sessions, and deleted by id
CascadeNext ==
  \/ \E n \in Names, c \in Colors : CreateTimer(n, c)
  \/ \E n \in Names : StartTimer(n, NULL)
  \/ \E n \in Names : StopTimer(n, NULL)
  \/ \E n \in Names, s \in Times, e \in Times : CreateSession(n, s, e)
  \/ \E id \in SessionIds : DeleteSession(id)
  \/ \E id \in AllTimerIds : DeleteTimer(id)

CascadeSpec == Init /\ [][CascadeNext]_vars

\* callers that pass any string as a name and any string as a color
ValidationNext ==
  \/ \E n \in InputNames, c \in InputColors : CreateTimer(n, c)
  \/ \E n \in InputNames : StartTimer(n, NULL)
  \/ \E n \in InputNames : StopTimer(n, NULL)
  \/ \E n \in InputNames, s \in Times, e \in Times : CreateSession(n, s, e)

ValidationSpec == Init /\ [][ValidationNext]_vars

\* startTimer up to its INSERT, run by process p: timer lookup or
\* auto-creation, the active-session check and, for a truthy startAt, the
\* latest-end read and comparison. A call that throws is over; one that
\* passes holds its timer id, start timestamp and the latest end it read.
StartCheck(p, timerName, startAt) ==
  LET found == getTimerByName(timerName)
      created == found = {}
      timerId == IF created THEN nextTimerId ELSE (CHOOSE t \in found : TRUE).id
      timer == IF created THEN timerRow(nextTimerId, timerName, DefaultColor)
               ELSE CHOOSE t \in found : TRUE
      err == IF timerSchemaOk(timer) THEN startError(timerId, startAt)
             ELSE "ValidationError"
  IN /\ \A q \in pending : q.proc # p
     /\ err = "none" => nextSessionId + Cardinality(pending) <= MaxSessions
     /\ created => nextTimerId <= MaxTimers
     /\ timers' = IF created
                    THEN timers \cup {timerRow(nextTimerId, timerName, DefaultColor)}
                    ELSE timers
     /\ nextTimerId' = IF created THEN nextTimerId + 1 ELSE nextTimerId
     /\ IF err # "none"
          THEN /\ last' = StartFailure(Call("start", timerName, startAt # NULL, err,
                                            created, NULL))
               /\ UNCHANGED pending
          ELSE /\ pending' = pending \cup
                   {[proc |-> p, name |-> timerName, explicit |-> startAt # NULL,
                     created |-> created, timerId |-> timerId,
                     start |-> Coalesce(startAt, now),
                     readLatest |-> Truthy(startAt),
                     latestEnd |-> IF Truthy(startAt) THEN getLatestEndTimestamp
                                   ELSE NULL]}
               /\ UNCHANGED last
     /\ UNCHANGED <<sessions, now, nextSessionId, tui>>

\* the rest of startTimer for process p: the INSERT of the session and the
\* return
StartInsert(p) ==
  \E c \in pending :
    /\ c.proc = p
    /\ sessions' = sessions \cup {startSession(nextSessionId, c.timerId, c.start)}
    /\ nextSessionId' = nextSessionId + 1
    /\ pending' = pending \ {c}
    /\ last' = Call("start", c.name, c.explicit, "none", c.created, nextSessionId)
    /\ UNCHANGED <<timers, now, nextTimerId, tui>>

\* several stint processes on the same database file: each statement is its
\* own implicit transaction, so the statements of one startTimer interleave
\* with the calls of the other processes
ConcNext ==
  \/ Tick
  \/ \E p \in Procs, n \in Names, at \in OptTimes : StartCheck(p, n, at)
  \/ \E p \in Procs : StartInsert(p)
  \/ \E n \in Names : StopTimer(n, NULL)

ConcSpec == Init /\ [][ConcNext]_vars

\* the ledger as the log command meets it, over several days: timers started
\* and stopped at the clock while seconds and days pass
LogNext ==
  \/ Tick
  \/ NextDay
  \/ \E n \in Names : StartTimer(n, NULL)
  \/ \E n \in Names : StopTimer(n, NULL)

LogSpec == Init /\ [][LogNext]_vars

\* the ledger as stint delete <session-id> meets it: sessions started at the
\* clock or entered by hand, deleted by what the user types as id
DeleteNext ==
  \/ \E n \in Names : StartTimer(n, NULL)
  \/ \E n \in Names, s \in Times, e \in Times : CreateSession(n, s, e)
  \/ \E sessionId \in InputIds : DeleteCommand(sessionId)

DeleteSpec == Init /\ [][DeleteNext]_vars

TypeOK ==
  /\ \A t \in timers : /\ t.id \in AllTimerIds
                       /\ t.name \in InputNames /\ t.color \in InputColors
  /\ \A s \in sessions : /\ s.id \in SessionIds
                         /\ s.timerId \in AllTimerIds
                         /\ s.start \in StoredTimes
                         /\ s.end \in StoredTimes \cup {NULL}
  /\ now \in 1..MaxNow
  /\ nextSessionId \in 1..(MaxSessions + 1)
  /\ \A c \in pending : /\ c.proc \in Procs /\ c.timerId \in AllTimerIds
                        /\ c.start \in StoredTimes
                        /\ c.latestEnd \in StoredTimes \cup {NULL}
  /\ Cardinality(pending) <= MaxProcs

\* ------------------------------------------------------------ properties
\* a timer (by id) has an open session
IsRunning(timerId) == \E s \in sessions : s.timerId = timerId /\ s.end = NULL

\* the timer of that name exists and has an open session
Running(name) == \E t \in timers : t.name = name /\ IsRunning(t.id)

\* the maximum end over the completed sessions of all timers, NULL if none
LatestCompletedEnd ==
  IF \E s \in sessions : s.end # NULL
    THEN SetMax({s.end : s \in {x \in sessions : x.end # NULL}})
    ELSE NULL

\* C1 (I1, mutual exclusion): in every reachable state each timer has at
\* most one session whose end is null.
C1_MutualExclusion ==
  \A s1, s2 \in sessions :
    (s1.timerId = s2.timerId /\ s1.end = NULL /\ s2.end = NULL) => s1 = s2

\* a second start on a running timer was refused while the timer also owns a
\* completed session
C1_Witness ==
  /\ last.op = "start" /\ last.err = "AlreadyRunning"
  /\ \E s1, s2 \in sessions :
       s1.timerId = s2.timerId /\ s1.end = NULL /\ s2.end # NULL

\* C2: start on a timer that already has an open session fails with
\* AlreadyRunning whatever startAt is given (omitted, zero, before or after
\* the latest end), and inserts no session.
C2_StartOnRunningFails ==
  [][(last'.op = "start" /\ Running(last'.name)) =>
       (last'.err = "AlreadyRunning" /\ sessions' = sessions /\ timers' = timers)]_vars

\* an explicit-timestamp start on a running timer was refused
C2_Witness ==
  /\ last.op = "start" /\ last.explicit /\ last.err = "AlreadyRunning"
  /\ Running(last.name)

\* C3: a start on a timer that is not running, with an explicit timestamp
\* earlier than the global latest completed end, fails with
\* ChronologyViolation, for every timestamp value including 0.
C3_StartBeforeLatestEndFails ==
  [][\A n \in Names, at \in Times :
       (/\ ~Running(n)
        /\ LatestCompletedEnd # NULL
        /\ at < LatestCompletedEnd
        /\ StartTimer(n, at)) => last'.err = "ChronologyViolation"]_vars

\* C4 (I3): the session a successful start has just created, live or
\* retroactive, has start >= the maximum end over the completed sessions
\* (start leaves the completed sessions as they were).
C4_StartRespectsChronology ==
  (last.op = "start" /\ last.err = "none" /\ LatestCompletedEnd # NULL) =>
    \A s \in sessions : s.id = last.sid => s.start >= LatestCompletedEnd

\* C5: start on an idle timer with an explicit startAt succeeds exactly when
\* no completed session exists or startAt >= latestCompletedEnd, and on
\* success the new open session has start = startAt and end null.
C5_ExplicitStartSucceedsIff ==
  [][\A n \in Names, at \in Times :
       (~Running(n) /\ StartTimer(n, at)) =>
         /\ (last'.err = "none") <=>
              (LatestCompletedEnd = NULL \/ at >= LatestCompletedEnd)
         /\ (last'.err = "none") =>
              \E s \in sessions' \ sessions :
                s.id = last'.sid /\ s.start = at /\ s.end = NULL]_vars

\* C6 (I4): stop with an explicit timestamp <= the open session's start fails
\* with InvalidStopTime and leaves the session open; with an explicit
\* timestamp > the start it succeeds and sets end to exactly that value.
C6_StopValidity ==
  [][\A n \in Names, at \in Times : \A t \in timers : \A s \in sessions :
       (/\ t.name = n /\ s.timerId = t.id /\ s.end = NULL
        /\ StopTimer(n, at)) =>
         IF at <= s.start
           THEN last'.err = "InvalidStopTime" /\ sessions' = sessions
           ELSE /\ last'.err = "none"
                /\ sessions' = (sessions \ {s}) \cup {[s EXCEPT !.end = at]}]_vars

\* C7 (I2, validity): every stored session whose end is present has end
\* strictly greater than start.
C7_Validity == \A s \in sessions : s.end # NULL => s.end > s.start

\* C8: whenever a call reports an error, the stored timers and the stored
\* sessions are exactly what they were before the call.
C8_NoPartialMutation ==
  [][last'.err # "none" => (timers' = timers /\ sessions' = sessions)]_vars

\* C9: stop fails with NotFound when no timer has that name, and with
\* NotRunning when the timer exists but has no open session; in both cases
\* no session (and no timer) is modified.
C9_StopNotFoundNotRunning ==
  [][last'.op = "stop" =>
       /\ (\A t \in timers : t.name # last'.name) =>
            (last'.err = "NotFound" /\ sessions' = sessions /\ timers' = timers)
       /\ ((\E t \in timers : t.name = last'.name) /\ ~Running(last'.name)) =>
            (last'.err = "NotRunning" /\ sessions' = sessions /\ timers' = timers)]_vars

\* a stop was refused with NotRunning on a timer whose session a previous
\* stop had closed, while another timer is running
C9_Witness ==
  /\ last.op = "stop" /\ last.err = "NotRunning"
  /\ \E t \in timers : /\ t.name = last.name
                       /\ \E s \in sessions : s.timerId = t.id /\ s.end # NULL
  /\ \E s \in sessions : s.end = NULL

\* C10, as stated: a timer is Idle when created; only start takes it from
\* Idle to Running and only stop takes it from Running to Idle.
C10_OnlyStopLeavesRunning ==
  [][\A id \in TimerIds :
       /\ (~IsRunning(id) /\ IsRunning(id)') => last'.op = "start"
       /\ (IsRunning(id) /\ ~IsRunning(id)') => last'.op = "stop"
       /\ (\E t \in timers' \ timers : t.id = id /\ last'.op # "start") =>
            ~IsRunning(id)']_vars

\* C10, amended: a timer is Idle when created; only a successful start of
\* that timer takes it from Idle to Running; only a successful stop of that
\* timer or the deletion of its open session takes it from Running to Idle;
\* createSession never changes whether a timer is Idle or Running. (A step
\* that leaves both tables as they were changes no timer's state.)
C10_StateMachine ==
  [][(sessions' # sessions \/ timers' # timers) => \A id \in TimerIds :
       /\ (~IsRunning(id) /\ IsRunning(id)') =>
            /\ last'.op = "start" /\ last'.err = "none"
            /\ \E t \in timers' : t.id = id /\ t.name = last'.name
       /\ (IsRunning(id) /\ ~IsRunning(id)') =>
            \/ /\ last'.op = "stop" /\ last'.err = "none"
               /\ \E t \in timers : t.id = id /\ t.name = last'.name
            \/ /\ last'.op = "delete" /\ last'.err = "none"
               /\ \E s \in sessions :
                    s.id = last'.sid /\ s.timerId = id /\ s.end = NULL
       /\ (\E t \in timers' \ timers : t.id = id /\ last'.op # "start") =>
            ~IsRunning(id)']_vars

\* the open session of a timer was deleted and the timer, which still
\* exists, is Idle
C10_Witness ==
  /\ last.op = "delete" /\ last.err = "none" /\ last.wasOpen
  /\ timers # {}
  /\ \A t \in timers : ~IsRunning(t.id)
  /\ \A s \in sessions : s.id # last.sid

\* C11: createSession fails with InvalidRange whenever end <= start and then
\* creates neither a session nor a timer; otherwise it inserts exactly one
\* closed session with the given start and end, owned by the timer of the
\* given name, which it creates when no timer has that name.
C11_CreateSession ==
  [][last'.op = "createSession" =>
       IF ~last'.ordered
         THEN /\ last'.err = "InvalidRange"
              /\ timers' = timers /\ sessions' = sessions
         ELSE /\ last'.err = "none"
              /\ \E s \in sessions' \ sessions :
                   /\ sessions' = sessions \cup {s}
                   /\ s.id = last'.sid
                   /\ s.start = last'.start /\ s.end = last'.end
                   /\ s.end # NULL
                   /\ \E t \in timers' : t.name = last'.name /\ t.id = s.timerId
              /\ IF \E t \in timers : t.name = last'.name
                   THEN timers' = timers
                   ELSE \E t \in timers' \ timers :
                          timers' = timers \cup {t} /\ t.name = last'.name]_vars

\* a createSession call on an unknown name returned: the timer exists now
\* and owns the closed session with the logged start and end, next to an
\* older session of another timer
C11_Witness ==
  /\ last.op = "createSession" /\ last.err = "none" /\ last.created
  /\ \E s \in sessions : \E t \in timers :
       /\ s.id = last.sid /\ s.start = last.start /\ s.end = last.end
       /\ t.id = s.timerId /\ t.name = last.name
  /\ \E s \in sessions : s.id # last.sid

\* C12: createSession applies no forward-chronology check: with end > start
\* it succeeds even when start is earlier than the latest completed end and
\* even while the target timer has an open session; and it is the only
\* creation path that bypasses I3, that is, every session created with a
\* start earlier than the latest completed end was created by createSession.
C12_OnlyManualBypassesChronology ==
  [][/\ (last'.op = "createSession" /\ last'.ordered) => last'.err = "none"
     /\ \A s \in sessions' \ sessions :
          (LatestCompletedEnd # NULL /\ s.start < LatestCompletedEnd) =>
            last'.op = "createSession"]_vars

\* C13 (auto-creation): start with a name that matches no timer creates
\* exactly one timer, with that name and the color #f5f5f4, and returns
\* created = true; start with the name of an existing timer creates no timer
\* and returns created = false.
C13_AutoCreation ==
  [][last'.op = "start" =>
       IF \E t \in timers : t.name = last'.name
         THEN /\ timers' = timers
              /\ last'.err = "none" => ~last'.created
         ELSE /\ \E t \in timers' \ timers :
                   /\ timers' = timers \cup {t}
                   /\ t.name = last'.name /\ t.color = "#f5f5f4"
              /\ last'.err = "none" => last'.created]_vars

\* a start on an unknown name returned with created = true next to an older
\* timer, and the new timer carries the default color
C13_Witness ==
  /\ last.op = "start" /\ last.err = "none" /\ last.created
  /\ Cardinality(timers) = 2
  /\ \E t \in timers : \E s \in sessions :
       /\ t.name = last.name /\ t.color = "#f5f5f4"
       /\ s.id = last.sid /\ s.timerId = t.id /\ s.end = NULL

\* C14: timer names are unique in every reachable state, and createTimer
\* with a name that an existing timer already has fails with DuplicateName
\* and adds no timer.
C14_UniqueNames ==
  [][/\ timers' # timers => \A t1, t2 \in timers' : t1.name = t2.name => t1 = t2
     /\ (last'.op = "create" /\ \E t \in timers : t.name = last'.name) =>
          (last'.err = "DuplicateName" /\ timers' = timers)]_vars

\* createTimer was refused for the name of a timer that owns a session,
\* while a second timer exists
C14_Witness ==
  /\ last.op = "create" /\ last.err = "DuplicateName"
  /\ Cardinality(timers) = 2
  /\ \E t \in timers : \E s \in sessions : t.name = last.name /\ s.timerId = t.id

\* the sessions a grouped result holds
Returned(grouping) == UNION {grouping[t] : t \in DOMAIN grouping}

\* C15: getSessionsByTimer (includeActive = false) returns exactly the
\* stored sessions with rangeStart <= start <= rangeEnd whose end is not
\* null, for every rangeStart and rangeEnd.
C15_CompletedInRange ==
  \A rangeStart, rangeEnd \in Times :
    Returned(getSessionsByTimer(rangeStart, rangeEnd)) =
      {s \in sessions : /\ rangeStart <= s.start /\ s.start <= rangeEnd
                        /\ s.end # NULL}

\* some window holds a closed session, which the query returns, and an open
\* session, which it leaves out
C15_Witness ==
  \E rangeStart, rangeEnd \in Times : \E s1, s2 \in sessions :
    /\ rangeStart <= s1.start /\ s1.start <= rangeEnd /\ s1.end # NULL
    /\ rangeStart <= s2.start /\ s2.start <= rangeEnd /\ s2.end = NULL
    /\ s1 \in Returned(getSessionsByTimer(rangeStart, rangeEnd))
    /\ s2 \notin Returned(getSessionsByTimer(rangeStart, rangeEnd))

\* C16: getAllSessionsByTimer (includeActive = true) returns, for every
\* rangeStart and rangeEnd, exactly the stored sessions with
\* (start >= rangeStart and start <= rangeEnd) or
\* (start < rangeStart and end is null).
C16_IncludeActive ==
  \A rangeStart, rangeEnd \in Times :
    Returned(getAllSessionsByTimer(rangeStart, rangeEnd)) =
      {s \in sessions : \/ (s.start >= rangeStart /\ s.start <= rangeEnd)
                        \/ (s.start < rangeStart /\ s.end = NULL)}

\* the interval of a session, its end taken as now while it is open,
\* intersects the window [rangeStart, rangeEnd], which is empty when
\* rangeEnd < rangeStart
Overlaps(s, rangeStart, rangeEnd) ==
  /\ rangeStart <= rangeEnd
  /\ s.start <= rangeEnd /\ Coalesce(s.end, now) >= rangeStart

\* C17, as stated: the range query returns every session whose interval
\* overlaps the window, including a closed session that started before
\* rangeStart and ended inside the window.
C17_AllOverlapping ==
  \A rangeStart, rangeEnd \in Times :
    LET result == Returned(getAllSessionsByTimer(rangeStart, rangeEnd))
    IN \A s \in sessions : Overlaps(s, rangeStart, rangeEnd) => s \in result

\* C17, amended: the range query returns every session whose interval
\* overlaps the window and that starts at or after rangeStart or is still
\* open; a closed session that started before rangeStart is not returned,
\* even when it ended inside the window.
C17_OverlappingByStart ==
  \A rangeStart, rangeEnd \in Times :
    LET result == Returned(getAllSessionsByTimer(rangeStart, rangeEnd))
    IN \A s \in sessions :
         /\ (/\ Overlaps(s, rangeStart, rangeEnd)
             /\ (s.start >= rangeStart \/ s.end = NULL)) => s \in result
         /\ (s.end # NULL /\ s.start < rangeStart) => s \notin result

\* for some window an open session that started before it is returned and a
\* closed session that started before it and ended inside it is not
C17_Witness ==
  \E rangeStart, rangeEnd \in Times : \E s1, s2 \in sessions :
    /\ s1.end = NULL /\ s1.start < rangeStart
    /\ s1 \in Returned(getAllSessionsByTimer(rangeStart, rangeEnd))
    /\ s2.end # NULL /\ s2.start < rangeStart
    /\ rangeStart <= s2.end /\ s2.end <= rangeEnd
    /\ s2 \notin Returned(getAllSessionsByTimer(rangeStart, rangeEnd))

\* C18: the duration of a closed session is end - start, whatever the clock
\* reads; the duration of an open session is now - start and never
\* decreases from one instant to the next (read before and after every
\* advance of the clock).
C18_Duration ==
  [][last'.op = "tick" => \A s \in sessions \cap sessions' :
       IF s.end # NULL
         THEN /\ getSessionDuration(s) = s.end - s.start
              /\ getSessionDuration(s)' = s.end - s.start
         ELSE /\ getSessionDuration(s) = now - s.start
              /\ getSessionDuration(s)' = now' - s.start
              /\ getSessionDuration(s)' >= getSessionDuration(s)]_vars

\* the clock has just advanced over an open session that has run for some
\* time and a closed session whose end is 0
C18_Witness ==
  /\ last.op = "tick"
  /\ \E s1, s2 \in sessions :
       /\ s1.end = NULL /\ getSessionDuration(s1) > 0
       /\ s2.end = 0 /\ getSessionDuration(s2) = 0 - s2.start

\* C19: getLatestEndTimestamp returns the greatest end among the sessions
\* whose end is present, whatever open sessions exist, and null when no
\* session has an end.
C19_LatestEnd ==
  IF \A s \in sessions : s.end = NULL
    THEN getLatestEndTimestamp = NULL
    ELSE /\ \E s \in sessions : s.end # NULL /\ s.end = getLatestEndTimestamp
         /\ \A s \in sessions : s.end # NULL => s.end <= getLatestEndTimestamp

\* an open session started after the only completed end, which the function
\* still returns
C19_Witness ==
  \E s1, s2 \in sessions :
    /\ s1.end = NULL /\ s2.end # NULL /\ s1.start > s2.end
    /\ getLatestEndTimestamp = s2.end

\* C20: deleteSession with an id that matches no stored session fails with
\* NotFound and changes nothing (so deleting the same id twice fails the
\* second time); with the id of a stored session, open or closed, it
\* removes that session and only that one, and a lookup of the id then
\* finds nothing.
C20_DeleteSession ==
  [][last'.op = "delete" =>
       IF \A s \in sessions : s.id # last'.sid
         THEN /\ last'.err = "NotFound"
              /\ sessions' = sessions /\ timers' = timers
         ELSE /\ last'.err = "none"
              /\ sessions' = {s \in sessions : s.id # last'.sid}
              /\ timers' = timers
              /\ \E id \in SessionIds :
                   id = last'.sid /\ getSessionById(id)' = {}]_vars

\* a delete was refused with NotFound for an id that had been handed out
\* and deleted before, while another session is still stored
C20_Witness ==
  /\ last.op = "delete" /\ last.err = "NotFound"
  /\ last.sid < nextSessionId
  /\ sessions # {}

\* C21: deleteSession removes exactly the one session with the given id:
\* every other session, of the same timer and of other timers, and every
\* timer, the owning one included, stays as it was, and the owning timer can
\* be started again afterwards (a start at the clock is refused only if the
\* timer still has another session open).
C21_DeleteFrame ==
  [][(last'.op = "delete" /\ last'.err = "none") =>
       \E d \in sessions :
         /\ d.id = last'.sid /\ d \notin sessions'
         /\ \A s \in sessions : s # d => s \in sessions'
         /\ sessions' \subseteq sessions
         /\ timers' = timers
         /\ \E t \in timers' :
              /\ t.id = d.timerId
              /\ (\A s \in sessions' : s.timerId = t.id => s.end # NULL) =>
                   startError(t.id, NULL)' = "none"]_vars

\* the open session of the only timer was deleted; the timer is still there,
\* Idle, and keeps its closed session
C21_Witness ==
  /\ last.op = "delete" /\ last.err = "none" /\ last.wasOpen
  /\ Cardinality(timers) = 1
  /\ \E s \in sessions : s.end # NULL /\ s.id # last.sid
  /\ \A s \in sessions : s.end # NULL

\* C22 (no orphan sessions): in every reachable state every session's
\* timerId is the id of a stored timer, and deleting a timer deletes all the
\* sessions it owns, open and closed, and no session of any other timer.
C22_NoOrphans ==
  [][/\ \A s \in sessions' : \E t \in timers' : t.id = s.timerId
     /\ last'.op = "deleteTimer" =>
          LET gone == timers \ timers'
          IN /\ timers' \subseteq timers /\ Cardinality(gone) <= 1
             /\ sessions' = {s \in sessions : \A t \in gone : s.timerId # t.id}]_vars

\* a timer was deleted after two sessions had been created: the session of
\* the remaining timer is still stored, the other one is gone
C22_Witness ==
  /\ last.op = "deleteTimer"
  /\ nextSessionId = 3 /\ Cardinality(sessions) = 1
  /\ nextTimerId = 3 /\ Cardinality(timers) = 1
  /\ \A s \in sessions : \E t \in timers : t.id = s.timerId

\* C23: a closed session is immutable: once its end is set, its start, end
\* and timerId are the same in every later state in which it still exists;
\* and a stop writes nothing but the end of the one session that is open for
\* the named timer.
C23_ClosedImmutable ==
  [][sessions' # sessions =>
       /\ \A s \in sessions : s.end # NULL =>
            \A s2 \in sessions' : s2.id = s.id => s2 = s
       /\ last'.op = "stop" =>
            \E a \in sessions : \E a2 \in sessions' :
              /\ a.end = NULL /\ a2.end # NULL
              /\ \E t \in timers : t.name = last'.name /\ t.id = a.timerId
              /\ a2.id = a.id /\ a2.start = a.start /\ a2.timerId = a.timerId
              /\ sessions' \ {a2} = sessions \ {a}]_vars

\* a stop has just closed the second session of a timer whose first session
\* was closed before and is still stored
C23_Witness ==
  /\ last.op = "stop" /\ last.err = "none"
  /\ \E s1, s2 \in sessions :
       /\ s1.id < s2.id /\ s2.id = last.sid
       /\ s1.timerId = s2.timerId /\ s1.end # NULL /\ s2.end # NULL

\* C24: timers are independent: a start at the clock on a timer that is not
\* running succeeds however many other timers are running, and a start or a
\* stop on one timer leaves the sessions of every other timer as they were.
C24_Independent ==
  [][/\ (last'.op \in {"start", "stop"} /\ sessions' # sessions) =>
          \A s \in sessions \cup sessions' :
            (\A t \in timers' : t.name = last'.name => s.timerId # t.id) =>
              (s \in sessions /\ s \in sessions')
     /\ (last'.op = "start" /\ ~last'.explicit /\ ~Running(last'.name)) =>
          last'.err = "none"]_vars

\* a start has just succeeded on one timer while the other timer is running
C24_Witness ==
  /\ last.op = "start" /\ last.err = "none"
  /\ \E s1, s2 \in sessions :
       /\ s1.id = last.sid /\ s1.end = NULL
       /\ s2.timerId # s1.timerId /\ s2.end = NULL /\ s2.id < s1.id

\* the grouping is a partition of the selected rows by owning timer
IsPartitionByTimer(grouping, rows) ==
  /\ \A t \in DOMAIN grouping :
       grouping[t] # {} /\ \A s \in grouping[t] : s.timerId = t.id
  /\ \A t1, t2 \in DOMAIN grouping : t1.id = t2.id => t1 = t2
  /\ \A s \in rows : Cardinality({t \in DOMAIN grouping : s \in grouping[t]}) = 1
  /\ {t.id : t \in DOMAIN grouping} = {s.timerId : s \in rows}

\* C25: grouping is a partition by owning timer: every session a range query
\* selects is in exactly one group, that of the timer whose id is the
\* session's timerId; there is exactly one group per owning timer and no
\* group is empty. Both queries, every window.
C25_GroupingPartition ==
  \A rangeStart, rangeEnd \in Times :
    /\ IsPartitionByTimer(getSessionsByTimer(rangeStart, rangeEnd),
                          {s \in getSessionsInRange(rangeStart, rangeEnd) :
                             s.end # NULL})
    /\ IsPartitionByTimer(getAllSessionsByTimer(rangeStart, rangeEnd),
                          allSessionsInRange(rangeStart, rangeEnd))

\* some window selects an open and a closed session and the result has two
\* groups
C25_Witness ==
  \E rangeStart, rangeEnd \in Times :
    LET grouping == getAllSessionsByTimer(rangeStart, rangeEnd)
    IN /\ Cardinality(DOMAIN grouping) = 2
       /\ \E t \in DOMAIN grouping : \E s \in grouping[t] : s.end = NULL
       /\ \E t \in DOMAIN grouping : \E s \in grouping[t] : s.end # NULL

\* C26: getAllTimers returns every stored timer exactly once, ordered by
\* name ascending, and the empty sequence when no timer is stored.
C26_ListAll ==
  LET result == getAllTimers
  IN /\ result.err = "none"
     /\ Len(result.rows) = Cardinality(timers)
     /\ {result.rows[i] : i \in 1..Len(result.rows)} = timers
     /\ \A i, j \in 1..Len(result.rows) :
          i < j => nameRank(result.rows[i].name) < nameRank(result.rows[j].name)
     /\ timers = {} => result.rows = <<>>

\* C28: every stored timer has a valid name and color: in every reachable
\* state each timer's name is non-empty and at most 100 characters long and
\* its color is a 6-hex-digit tag; and a call that reports a validation
\* error has stored no timer.
C28_ValidTimers ==
  [][/\ \A t \in timers' : timerSchemaOk(t)
     /\ last'.err = "ValidationError" => timers' = timers]_vars

\* C29: an empty range yields an empty grouping: for every window with
\* rangeEnd < rangeStart both range queries return a grouping with no
\* timers, whatever sessions are stored.
C29_EmptyRange ==
  \A rangeStart, rangeEnd \in StoredTimes :
    rangeEnd < rangeStart =>
      /\ DOMAIN getSessionsByTimer(rangeStart, rangeEnd) = {}
      /\ DOMAIN getAllSessionsByTimer(rangeStart, rangeEnd) = {}

\* C27: the check-then-insert of start is atomic with respect to other
\* writers: when a start runs its INSERT, the timer it starts still has no
\* open session and the latest end it read is still the latest end, so no
\* timer ever has two open sessions.
C27_AtomicStart ==
  [][/\ \A c \in pending \ pending' :
          /\ getActiveSession(c.timerId) = {}
          /\ c.readLatest => getLatestEndTimestamp = c.latestEnd
     /\ \A s1, s2 \in sessions' :
          (s1.timerId = s2.timerId /\ s1.end = NULL /\ s2.end = NULL) => s1 = s2]_vars

\* C30: a ChronologyViolation reported by start carries the conflicting
\* latest-end timestamp: what the error holds fits no timestamp but the
\* latest completed end at the time of the call, so violations against
\* different latest ends differ.
C30_CarriesLatestEnd ==
  [][(last'.op = "start" /\ last'.err = "ChronologyViolation") =>
       \A e \in StoredTimes :
         latestEndFormatted(e) = last'.detail => e = LatestCompletedEnd]_vars

\* the sum of (end, or now for an open session) - start over the sessions
ShownTotal(shown) ==
  SumOver([s \in shown |-> (IF s.end = NULL THEN now ELSE s.end) - s.start], shown)

\* C31: aggregation uses the duration function uniformly: for the log of
\* every window of whole days, each day's total is the sum of the durations
\* of the sessions shown for that day, an open session counting now - start,
\* the grand total is the sum over all sessions shown, and the grand total
\* is the sum of the day totals.
C31_LogTotals ==
  \A d1, d2 \in Days :
    LET sessionsByTimer == getAllSessionsByTimer(startOfDay(d1), endOfDay(d2))
        shown == Returned(sessionsByTimer)
        output == generateLogOutput(sessionsByTimer)
    IN /\ DOMAIN output.days = {dayKey(s) : s \in shown}
       /\ \A day \in DOMAIN output.days :
            output.days[day] = ShownTotal({s \in shown : dayKey(s) = day})
       /\ output.total = ShownTotal(shown)
       /\ output.total = SumOver(output.days, DOMAIN output.days)

\* the log of all days shows two timers on two days, one of them with a
\* session that is still open and has run for some time
C31_Witness ==
  LET sessionsByTimer == getAllSessionsByTimer(startOfDay(0), endOfDay(MaxDay))
      output == generateLogOutput(sessionsByTimer)
  IN /\ Cardinality(DOMAIN sessionsByTimer) = 2
     /\ Cardinality(DOMAIN output.days) = 2
     /\ \E s \in Returned(sessionsByTimer) : s.end = NULL /\ now - s.start > 0
     /\ output.total > 0

\* the text begins with the given characters
StartsWith(text, prefix) ==
  Len(prefix) <= Len(text) /\ SubSeq(text, 1, Len(prefix)) = prefix

\* C32: deleting by short id is a prefix match: the session found and
\* deleted has the given string as its id or, the string having at least 4
\* characters, is the only session whose id starts with it; its id always
\* begins with the given string; and when several ids start with the string
\* an error is raised and nothing is deleted.
C32_PrefixMatch ==
  [][last'.op = "deleteCommand" =>
       /\ last'.err = "none" =>
            \E d \in sessions :
              /\ d.id = last'.sid /\ sessions' = sessions \ {d}
              /\ StartsWith(idText(d.id), last'.detail)
              /\ \/ idText(d.id) = last'.detail
                 \/ /\ Len(last'.detail) >= 4
                    /\ \A s \in sessions :
                         StartsWith(idText(s.id), last'.detail) => s = d
       /\ (/\ Len(last'.detail) >= 4
           /\ \A s \in sessions : idText(s.id) # last'.detail
           /\ Cardinality({s \in sessions :
                             StartsWith(idText(s.id), last'.detail)}) > 1) =>
            (last'.err = "MultipleMatch" /\ sessions' = sessions)]_vars

\* ------------------------------------------- calendar editor (create -i)
\* months the calendar can show and the dates of a month; every month has
\* the days of Days
Months == {0, 1}
Dates == [month : Months, day : Days]

\* startOfDay(date).getTime() / 1000
dateStart(date) == (date.month * (MaxDay + 1) + date.day) * SecondsPerDay

\* setMinutes(setHours(startOfDay(date), h), m).getTime() / 1000
timeOfDay(date, h, m) == dateStart(date) + h * 3600 + m * 60

\* variant: the key is the day of the month alone
dateKey_dayOnly(date) == <<date.day>>

\* format(selectedDate, 'yyyy-MM-dd')
dateKey(date) == <<date.month, date.day>>

\* Map<string, Session[]> as the sequence of its entries in insertion order
mapHas(m, k) == \E i \in DOMAIN m : m[i].key = k

mapGet(m, k) ==
  IF mapHas(m, k) THEN m[CHOOSE i \in DOMAIN m : m[i].key = k].list ELSE <<>>

mapSet(m, k, v) ==
  IF mapHas(m, k)
    THEN [i \in DOMAIN m |-> IF m[i].key = k THEN [key |-> k, list |-> v] ELSE m[i]]
    ELSE Append(m, [key |-> k, list |-> v])

mapDelete(m, k) ==
  LET keep(e) == e.key # k IN SelectSeq(m, keep)

\* sessions.forEach((daySessions) => allSessions.push(...daySessions))
RECURSIVE allSessionsOf(_)
allSessionsOf(m) ==
  IF m = <<>> THEN <<>> ELSE Head(m).list \o allSessionsOf(Tail(m))

\* the lines a user can have typed in the day view when Enter is pressed:
\* nothing, the clear command, the two shortcuts, text that is no time
\* range, and time ranges
Line(text, startH, startM, endH, endM) ==
  [text |-> text, startH |-> startH, startM |-> startM,
   endH |-> endH, endM |-> endM]

DayLines ==
  {Line("", 0, 0, 0, 0), Line("c", 0, 0, 0, 0), Line("8", 0, 0, 0, 0),
   Line("4", 0, 0, 0, 0), Line("abc", 0, 0, 0, 0),
   Line("range", 14, 0, 16, 30), Line("range", 16, 0, 14, 0),
   Line("range", 10, 0, 10, 0), Line("range", 24, 0, 25, 0),
   Line("range", 9, 60, 10, 0)}

\* handleSubmit: what the line asks for, "none" (empty input), "clear",
\* "error", or "add" with the session to add
handleSubmit(date, line) ==
  LET none == [do |-> "none", start |-> NULL, end |-> NULL]
      add(sh, sm, eh, em) ==
        [do |-> "add", start |-> timeOfDay(date, sh, sm),
         end |-> timeOfDay(date, eh, em)]
      error == [do |-> "error", start |-> NULL, end |-> NULL]
  IN CASE line.text = "" -> none
       [] line.text = "c" -> [do |-> "clear", start |-> NULL, end |-> NULL]
       [] line.text = "8" -> add(9, 0, 17, 0)
       [] line.text = "4" -> add(9, 0, 13, 0)
       [] line.text # "range" -> error
       [] line.startH < 0 \/ line.startH > 23 \/ line.endH < 0 \/ line.endH > 23 -> error
       [] line.startM < 0 \/ line.startM > 59 \/ line.endM < 0 \/ line.endM > 59 -> error
       [] timeOfDay(date, line.endH, line.endM)
            <= timeOfDay(date, line.startH, line.startM) -> error
       [] OTHER -> add(line.startH, line.startM, line.endH, line.endM)

\* a key press that leaves the store alone
KeyCall(op, name) == Call(op, name, FALSE, "none", FALSE, NULL)

\* stint create <name> -i: render(CalendarView); added is the history of
\* the sessions handed to onAddSession, each with its date, less those of a
\* date that was cleared afterwards
OpenCalendar(timerName, today) ==
  /\ tui = NoTui
  /\ nextSessionId <= MaxSessions
  /\ tui' = [component |-> "CalendarView", timerName |-> timerName,
             currentMonth |-> today.month, selectedDate |-> today,
             sessions |-> <<>>, mode |-> "calendar", added |-> <<>>]
  /\ last' = KeyCall("open", timerName)
  /\ UNCHANGED <<timers, sessions, now, nextTimerId, nextSessionId, pending>>

\* the onSave of create.ts: createSession for each session in turn, a
\* failure being reported and skipped; the first call creates the timer when
\* it does not exist yet and the later ones find it
onSave(timerName, allSessions) ==
  IF allSessions = <<>>
    THEN UNCHANGED <<timers, sessions, nextTimerId, nextSessionId>>
    ELSE \E found \in {getTimerByName(timerName)} :
         \E timer \in (IF found = {}
                         THEN {timerRow(nextTimerId, timerName, DefaultColor)}
                         ELSE found) :
           LET created == found = {}
               valid == {i \in DOMAIN allSessions :
                           createSessionError(allSessions[i].start,
                                              allSessions[i].end) = "none"}
               rank(i) == Cardinality({j \in valid : j < i})
           IN /\ created => nextTimerId <= MaxTimers
              /\ timers' = IF created THEN timers \cup {timer} ELSE timers
              /\ nextTimerId' = IF created THEN nextTimerId + 1 ELSE nextTimerId
              /\ IF ~timerSchemaOk(timer)
                   THEN UNCHANGED <<sessions, nextSessionId>>
                   ELSE /\ nextSessionId + Cardinality(valid) - 1 <= MaxSessions
                        /\ sessions' = sessions \cup
                             {createSessionRow(nextSessionId + rank(i), timer.id,
                                               allSessions[i].start,
                                               allSessions[i].end) : i \in valid}
                        /\ nextSessionId' = nextSessionId + Cardinality(valid)

\* the useInput handler of CalendarView, which acts in calendar mode only
CalendarKeys == {"left", "right", "up", "down", "n", "p", "return", "escape"}

CalendarInput(key) ==
  /\ tui.component = "CalendarView"
  /\ tui.mode = "calendar"
  /\ LET currentIndex == tui.selectedDate.day
         moveTo(newIndex) ==
           [tui EXCEPT !.selectedDate = [month |-> tui.currentMonth, day |-> newIndex]]
         showMonth(newMonth) ==
           [tui EXCEPT !.currentMonth = newMonth,
                       !.selectedDate = [month |-> newMonth, day |-> 0]]
     IN IF key = "escape"
          THEN /\ onSave(tui.timerName, allSessionsOf(tui.sessions))
               /\ tui' = NoTui
               /\ last' = [KeyCall("save", tui.timerName) EXCEPT
                             !.detail = allSessionsOf(tui.sessions)]
          ELSE /\ CASE key = "left" ->
                         tui' = IF currentIndex > 0 THEN moveTo(currentIndex - 1) ELSE tui
                    [] key = "right" ->
                         tui' = IF currentIndex < MaxDay THEN moveTo(currentIndex + 1)
                                ELSE tui
                    [] key = "up" ->
                         tui' = IF currentIndex - 7 >= 0 THEN moveTo(currentIndex - 7)
                                ELSE tui
                    [] key = "down" ->
                         tui' = IF currentIndex + 7 <= MaxDay THEN moveTo(currentIndex + 7)
                                ELSE tui
                    [] key = "n" ->
                         /\ tui.currentMonth + 1 \in Months
                         /\ tui' = showMonth(tui.currentMonth + 1)
                    [] key = "p" ->
                         /\ tui.currentMonth - 1 \in Months
                         /\ tui' = showMonth(tui.currentMonth - 1)
                    [] key = "return" -> tui' = [tui EXCEPT !.mode = "day"]
               /\ last' = KeyCall("key", tui.timerName)
               /\ UNCHANGED <<timers, sessions, nextTimerId, nextSessionId>>
  /\ UNCHANGED <<now, pending>>

\* the Escape and Enter keys of DayEntryView with the callbacks of
\* CalendarView they reach: onBack, onClearSessions, onAddSession; line is
\* the input the character and backspace keys have built up by then
DayKeys == {"escape", "return"}

DayInput(key, line) ==
  /\ tui.component = "CalendarView"
  /\ tui.mode = "day"
  /\ LET key_ == dateKey(tui.selectedDate)
         submit == handleSubmit(tui.selectedDate, line)
         session == [start |-> submit.start, end |-> submit.end]
         back == [tui EXCEPT !.mode = "calendar"]
         forgets(e) == e.date # tui.selectedDate
     IN CASE key = "escape" -> tui' = back
          [] key = "return" /\ submit.do = "clear" ->
               tui' = [back EXCEPT !.sessions = mapDelete(tui.sessions, key_),
                                   !.added = SelectSeq(tui.added, forgets)]
          [] key = "return" /\ submit.do = "add" ->
               /\ nextSessionId + Len(allSessionsOf(tui.sessions)) <= MaxSessions
               /\ nextSessionId + Len(tui.added) <= MaxSessions
               /\ tui' = [back EXCEPT
                            !.sessions = mapSet(tui.sessions, key_,
                                                Append(mapGet(tui.sessions, key_), session)),
                            !.added = Append(tui.added,
                                             [date |-> tui.selectedDate,
                                              session |-> session])]
          [] OTHER -> tui' = tui
  /\ last' = KeyCall("key", tui.timerName)
  /\ UNCHANGED <<timers, sessions, now, nextTimerId, nextSessionId, pending>>

EditorNext ==
  \/ \E n \in Names, today \in Dates : OpenCalendar(n, today)
  \/ \E key \in CalendarKeys : CalendarInput(key)
  \/ \E key \in DayKeys, line \in DayLines : DayInput(key, line)

EditorSpec == Init /\ [][EditorNext]_vars

\* how many times x occurs in the sequence
Count(seq, x) == Cardinality({i \in DOMAIN seq : seq[i] = x})

MaxHours == 25
Durations ==
  {h * 3600 + m * 60 + sec : h \in 0..MaxHours, m \in {0, 1, 59}, sec \in {0, 1, 59}}

\* one part of the output, as `${n}${unit}`
Part(n, unit) == [n |-> n, unit |-> unit]

\* variant: the hours are those of the day
formatDuration_hourOfDay(seconds) ==
  LET totalMinutes == seconds \div 60
      totalHours == (totalMinutes \div 60) % 24
      remainingMinutes == totalMinutes % 60
      remainingSeconds == seconds % 60
      hours == IF totalHours # 0 THEN <<Part(totalHours, "h")>> ELSE <<>>
      minutes == IF remainingMinutes # 0 THEN <<Part(remainingMinutes, "m")>> ELSE <<>>
      parts == hours \o minutes
      withSeconds == IF parts = <<>> /\ remainingSeconds # 0
                       THEN <<Part(remainingSeconds, "s")>> ELSE parts
  IN IF withSeconds = <<>> THEN <<Part(0, "s")>> ELSE withSeconds

\* formatDuration(seconds): the parts that are joined with ' '
formatDuration(seconds) ==
  LET totalMinutes == seconds \div 60
      totalHours == totalMinutes \div 60
      remainingMinutes == totalMinutes % 60
      remainingSeconds == seconds % 60
      hours == IF totalHours # 0 THEN <<Part(totalHours, "h")>> ELSE <<>>
      minutes == IF remainingMinutes # 0 THEN <<Part(remainingMinutes, "m")>> ELSE <<>>
      parts == hours \o minutes
      withSeconds == IF parts = <<>> /\ remainingSeconds # 0
                       THEN <<Part(remainingSeconds, "s")>> ELSE parts
  IN IF withSeconds = <<>> THEN <<Part(0, "s")>> ELSE withSeconds

\* a caller formats a duration
FormatDuration(seconds) ==
  /\ last' = [KeyCall("formatDuration", "") EXCEPT
                !.start = seconds, !.detail = formatDuration(seconds)]
  /\ UNCHANGED <<timers, sessions, now, nextTimerId, nextSessionId, pending, tui>>

FormatNext == \E seconds \in Durations : FormatDuration(seconds)

FormatSpec == Init /\ [][FormatNext]_vars

\* the numbers the output shows with the given unit, in order
Shown(out, unit) ==
  LET has(part) == part.unit = unit
      parts == SelectSeq(out, has)
  IN [i \in DOMAIN parts |-> parts[i].n]

\* C34: for a non-negative whole number of seconds s the output shows the
\* hours s div 3600 (never reduced modulo 24) when they are not zero, then
\* the minutes (s div 60) mod 60 when they are not zero, the seconds
\* s mod 60 only when hours and minutes are both zero, and is "0s" for 0.
C34_FormatDuration ==
  last.op = "formatDuration" =>
    LET s == last.start
        out == last.detail
        h == s \div 3600
        m == (s \div 60) % 60
    IN /\ Shown(out, "h") = IF h = 0 THEN <<>> ELSE <<h>>
       /\ Shown(out, "m") = IF m = 0 THEN <<>> ELSE <<m>>
       /\ Shown(out, "s") = IF h = 0 /\ m = 0 THEN <<s % 60>> ELSE <<>>
       /\ Len(out) = Len(Shown(out, "h")) + Len(Shown(out, "m")) + Len(Shown(out, "s"))
       /\ \A i, j \in DOMAIN out :
            (i < j) => <<out[i].unit, out[j].unit>> = <<"h", "m">>
       /\ s = 0 => out = <<Part(0, "s")>>

\* a duration of more than a day with odd minutes has been formatted
C34_Witness ==
  /\ last.op = "formatDuration"
  /\ last.start > 24 * 3600
  /\ Len(last.detail) = 2
  /\ last.start % 60 # 0

\* ------------------------------------------------ ledger without deletes
\* the calls that add to the ledger: start, stop and createSession
NoDeleteNext ==
  \/ Tick
  \/ \E n \in Names, at \in OptTimes : StartTimer(n, at)
  \/ \E n \in Names, at \in OptTimes : StopTimer(n, at)
  \/ \E n \in Names, s \in Times, e \in Times : CreateSession(n, s, e)

NoDeleteSpec == Init /\ [][NoDeleteNext]_vars

\* C35: under start, stop and createSession the latest completed end, once
\* there is one, never moves backward: after every step it is still defined
\* and at least what it was.
C35_LatestEndMonotone ==
  [][(sessions' # sessions /\ getLatestEndTimestamp # NULL) =>
       (/\ getLatestEndTimestamp' # NULL
        /\ getLatestEndTimestamp' >= getLatestEndTimestamp)]_vars

\* a manual session that ends before the latest completed end has just
\* been added
C35_Witness ==
  /\ last.op = "createSession" /\ last.err = "none"
  /\ last.end < getLatestEndTimestamp

\* ------------------------------------------------- starts at a given time
\* the times a caller may give to start: none, or any time up to one second
\* past the last reading of the clock
GivenTimes == {NULL} \cup (0..(MaxNow + 1))

GivenTimeNext ==
  \/ Tick
  \/ \E n \in Names, at \in GivenTimes : StartTimer(n, at)
  \/ \E n \in Names : StopTimer(n, NULL)

GivenTimeSpec == Init /\ [][GivenTimeNext]_vars

\* C36: no open session starts in the future: every session whose end is
\* null has start <= now, so its duration now - start is never negative.
C36_NoFutureOpenStart ==
  \A s \in sessions :
    s.end = NULL => (s.start <= now /\ getSessionDuration(s) >= 0)

\* C37: the order of the checks is fixed: a start on a timer that is running
\* fails with AlreadyRunning whatever start time is given, also one that is
\* earlier than the latest completed end; a stop on a name that has no timer
\* fails with NotFound whatever stop time is given; and a failing call
\* reports one error, one of those of its operation.
C37_ErrorPrecedence ==
  [][/\ (last'.op = "start" /\ \E t \in getTimerByName(last'.name) :
                                 getActiveSession(t.id) # {}) =>
          last'.err = "AlreadyRunning"
     /\ (last'.op = "stop" /\ getTimerByName(last'.name) = {}) =>
          last'.err = "NotFound"
     /\ last'.op = "start" =>
          last'.err \in {"none", "AlreadyRunning", "ChronologyViolation"}
     /\ last'.op = "stop" =>
          last'.err \in {"none", "NotFound", "NotRunning", "InvalidStopTime"}]_vars

\* a start at a given time has just failed with AlreadyRunning while every
\* time that can be given lies before the latest completed end
C37_Witness ==
  /\ last.op = "start" /\ last.explicit /\ last.err = "AlreadyRunning"
  /\ getLatestEndTimestamp # NULL
  /\ \A at \in Times : at < getLatestEndTimestamp

\* --------------------------------------- session picker (stint delete)
\* format(new Date(session.start * 1000), 'yyyy-MM-dd') as a date of the
\* calendar, the zone offset taken as 0
dateOf(timestamp) ==
  [month |-> timestamp \div ((MaxDay + 1) * SecondsPerDay),
   day |-> (timestamp \div SecondsPerDay) % (MaxDay + 1)]

\* parseDateRange('month'): the month of the clock
monthRange ==
  LET first == [month |-> dateOf(now).month, day |-> 0]
      lastDay == [month |-> dateOf(now).month, day |-> MaxDay]
  IN [start |-> dateStart(first), end |-> dateStart(lastDay) + SecondsPerDay - 1]

\* the flat list of delete.ts: every session of the grouping with its timer
allSessions(sessionsByTimer) ==
  UNION {{[session |-> x, timer |-> t] : x \in sessionsByTimer[t]} :
           t \in DOMAIN sessionsByTimer}

\* the orders the items can be listed in: newest start first, items of equal
\* start in either order
listings(items) ==
  {seq \in [1..Cardinality(items) -> items] :
     /\ \A i, j \in DOMAIN seq : i # j => seq[i] # seq[j]
     /\ \A i, j \in DOMAIN seq : i < j => seq[i].session.start >= seq[j].session.start}

\* sessionsByDay.get(selectedDateKey) || []
selectedDaySessions(p) ==
  LET onDay(item) == dateKey(dateOf(item.session.start)) = dateKey(p.selectedDate)
  IN SelectSeq(p.sessions, onDay)

\* what a key press leaves: the state of the picker and the callback called
Handled(p, call) == [state |-> p, call |-> call]

PickerKeys == {"left", "right", "up", "down", "n", "p", "return", "escape", "q"}

\* useInput, mode === 'calendar'
calendarModeKey(p, key) ==
  LET currentIndex == p.selectedDate.day
      moveTo(newIndex) ==
        [p EXCEPT !.selectedDate = [month |-> p.currentMonth, day |-> newIndex]]
      showMonth(newMonth) ==
        [p EXCEPT !.currentMonth = newMonth,
                  !.selectedDate = [month |-> newMonth, day |-> 0]]
  IN CASE key = "left" ->
            Handled(IF currentIndex > 0 THEN moveTo(currentIndex - 1) ELSE p, "none")
       [] key = "right" ->
            Handled(IF currentIndex < MaxDay THEN moveTo(currentIndex + 1) ELSE p, "none")
       [] key = "up" ->
            Handled(IF currentIndex - 7 >= 0 THEN moveTo(currentIndex - 7) ELSE p, "none")
       [] key = "down" ->
            Handled(IF currentIndex + 7 <= MaxDay THEN moveTo(currentIndex + 7) ELSE p,
                    "none")
       [] key = "n" -> Handled(showMonth(p.currentMonth + 1), "none")
       [] key = "p" -> Handled(showMonth(p.currentMonth - 1), "none")
       [] key = "return" ->
            Handled(IF Len(selectedDaySessions(p)) > 0
                      THEN [p EXCEPT !.selectedSessionIndex = 0, !.mode = "day"]
                      ELSE p, "none")
       [] OTHER -> Handled(p, "onCancel")

\* variant: Enter on a listed session selects it at once
dayModeKey_selects(p, key) ==
  LET daySessions == selectedDaySessions(p)
      min(a, b) == IF a < b THEN a ELSE b
      max(a, b) == IF a > b THEN a ELSE b
  IN CASE key = "up" ->
            Handled([p EXCEPT !.selectedSessionIndex = max(0, p.selectedSessionIndex - 1)],
                    "none")
       [] key = "down" ->
            Handled([p EXCEPT !.selectedSessionIndex =
                                min(Len(daySessions) - 1, p.selectedSessionIndex + 1)],
                    "none")
       [] key = "return" ->
            IF p.selectedSessionIndex + 1 \in DOMAIN daySessions
              THEN Handled([p EXCEPT !.sessionToConfirm =
                                       {daySessions[p.selectedSessionIndex + 1]}],
                           "onSelect")
              ELSE Handled(p, "none")
       [] key \in {"escape", "q"} -> Handled([p EXCEPT !.mode = "calendar"], "none")
       [] OTHER -> Handled(p, "none")

\* variant: the down arrow does not stop at the last session
dayModeKey_noClamp(p, key) ==
  LET daySessions == selectedDaySessions(p)
      max(a, b) == IF a > b THEN a ELSE b
  IN CASE key = "up" ->
            Handled([p EXCEPT !.selectedSessionIndex = max(0, p.selectedSessionIndex - 1)],
                    "none")
       [] key = "down" ->
            Handled([p EXCEPT !.selectedSessionIndex = p.selectedSessionIndex + 1], "none")
       [] key = "return" ->
            IF p.selectedSessionIndex + 1 \in DOMAIN daySessions
              THEN Handled([p EXCEPT !.sessionToConfirm =
                                       {daySessions[p.selectedSessionIndex + 1]},
                                     !.mode = "confirm"], "none")
              ELSE Handled(p, "none")
       [] key \in {"escape", "q"} -> Handled([p EXCEPT !.mode = "calendar"], "none")
       [] OTHER -> Handled(p, "none")

\* useInput, mode === 'day'; selectedSessionIndex counts from 0
dayModeKey(p, key) ==
  LET daySessions == selectedDaySessions(p)
      min(a, b) == IF a < b THEN a ELSE b
      max(a, b) == IF a > b THEN a ELSE b
  IN CASE key = "up" ->
            Handled([p EXCEPT !.selectedSessionIndex = max(0, p.selectedSessionIndex - 1)],
                    "none")
       [] key = "down" ->
            Handled([p EXCEPT !.selectedSessionIndex =
                                min(Len(daySessions) - 1, p.selectedSessionIndex + 1)],
                    "none")
       [] key = "return" ->
            IF p.selectedSessionIndex + 1 \in DOMAIN daySessions
              THEN Handled([p EXCEPT !.sessionToConfirm =
                                       {daySessions[p.selectedSessionIndex + 1]},
                                     !.mode = "confirm"], "none")
              ELSE Handled(p, "none")
       [] key \in {"escape", "q"} -> Handled([p EXCEPT !.mode = "calendar"], "none")
       [] OTHER -> Handled(p, "none")

\* useInput, mode === 'confirm'
confirmModeKey(p, key) ==
  CASE key = "return" ->
         Handled(p, IF p.sessionToConfirm # {} THEN "onSelect" ELSE "none")
    [] key \in {"escape", "q"} ->
         Handled([p EXCEPT !.sessionToConfirm = {}, !.mode = "day"], "none")
    [] OTHER -> Handled(p, "none")

\* stint delete without an id: the sessions of the month, listed in the
\* picker, which opens on today
OpenPicker ==
  \E items \in {allSessions(getAllSessionsByTimer(monthRange.start, monthRange.end))} :
    /\ tui = NoTui
    /\ items # {}
    /\ \E listing \in listings(items) :
         tui' = [component |-> "SessionPicker", sessions |-> listing,
                 currentMonth |-> dateOf(now).month, selectedDate |-> dateOf(now),
                 mode |-> "calendar", selectedSessionIndex |-> 0,
                 sessionToConfirm |-> {}]
    /\ last' = KeyCall("open", "")
    /\ UNCHANGED <<timers, sessions, now, nextTimerId, nextSessionId, pending>>

\* a key press in the picker, with what delete.ts does in onSelect (unmount,
\* then doDelete of the session) and in onCancel (unmount)
PickerInput(key) ==
  /\ tui.component = "SessionPicker"
  /\ \E handled \in {CASE tui.mode = "calendar" -> calendarModeKey(tui, key)
                       [] tui.mode = "day" -> dayModeKey(tui, key)
                       [] tui.mode = "confirm" -> confirmModeKey(tui, key)} :
       /\ handled.state.currentMonth \in Months
       /\ CASE handled.call = "onSelect" ->
                 \E item \in handled.state.sessionToConfirm :
                   /\ tui' = NoTui
                   /\ sessions' = sessions \ getSessionById(item.session.id)
                   /\ last' = [Call("onSelect", key, FALSE, "none", FALSE,
                                    item.session.id) EXCEPT !.detail = <<item>>]
            [] handled.call = "onCancel" ->
                 /\ tui' = NoTui
                 /\ last' = KeyCall("onCancel", key)
                 /\ UNCHANGED sessions
            [] OTHER ->
                 /\ tui' = handled.state
                 /\ last' = KeyCall("key", key)
                 /\ UNCHANGED sessions
  /\ UNCHANGED <<timers, now, nextTimerId, nextSessionId, pending>>

\* timers started at the clock while seconds and days pass, and stint delete
\* run from time to time; no other command runs while the picker is open
PickerNext ==
  \/ tui = NoTui /\ (Tick \/ NextDay \/ \E n \in Names : StartTimer(n, NULL))
  \/ OpenPicker
  \/ \E key \in PickerKeys : PickerInput(key)

PickerSpec == Init /\ [][PickerNext]_vars

\* C38: interactive deletion needs a confirmation: onSelect is called only by
\* Enter in confirm mode, with one of the sessions given to the picker that
\* starts on the selected day; confirm mode is entered only from day mode, by
\* Enter on the session highlighted in the list of the day; Escape in confirm
\* mode leads back to day mode and calls nothing; and while the picker is
\* open the store changes only through onSelect.
C38_ConfirmedSelect ==
  [][tui.component = "SessionPicker" =>
       /\ last'.op = "onSelect" =>
            /\ tui.mode = "confirm" /\ last'.name = "return"
            /\ \E i \in DOMAIN selectedDaySessions(tui) :
                 selectedDaySessions(tui)[i] = last'.detail[1]
            /\ \E i \in DOMAIN tui.sessions : tui.sessions[i] = last'.detail[1]
       /\ (tui.mode # "confirm" /\ tui' # NoTui /\ tui'.mode = "confirm") =>
            /\ tui.mode = "day" /\ last'.name = "return"
            /\ tui.selectedSessionIndex + 1 \in DOMAIN selectedDaySessions(tui)
            /\ tui'.sessionToConfirm =
                 {selectedDaySessions(tui)[tui.selectedSessionIndex + 1]}
       /\ (tui.mode = "confirm" /\ last'.name = "escape") =>
            (tui' # NoTui /\ tui'.mode = "day" /\ last'.op = "key"
             /\ sessions' = sessions)
       /\ sessions' # sessions => last'.op = "onSelect"]_vars

\* the older of two sessions of one day has just been selected and deleted
C38_Witness ==
  /\ last.op = "onSelect"
  /\ tui = NoTui
  /\ \E s \in sessions :
       /\ dateOf(s.start) = dateOf(last.detail[1].session.start)
       /\ s.start > last.detail[1].session.start
  /\ last.detail[1].session \notin sessions

\* C39: in day mode of the picker the highlighted index is at least 0 and at
\* most the number of sessions of the selected day minus 1, and the selected
\* day has a session.
C39_IndexInRange ==
  (tui.component = "SessionPicker" /\ tui.mode = "day") =>
    /\ Len(selectedDaySessions(tui)) > 0
    /\ 0 <= tui.selectedSessionIndex
    /\ tui.selectedSessionIndex <= Len(selectedDaySessions(tui)) - 1

\* the last of two sessions of the selected day is highlighted while days
\* without a session exist
C39_Witness ==
  /\ tui.component = "SessionPicker" /\ tui.mode = "day"
  /\ Len(selectedDaySessions(tui)) = 2
  /\ tui.selectedSessionIndex = 1
  /\ \E d \in Dates : \A i \in DOMAIN tui.sessions :
       dateOf(tui.sessions[i].session.start) # d
====
